---------------------------- MODULE Spec2Model ----------------------------
(***************************************************************************)
(* Dataset reconciliation pipeline (src/src/process.py, src/src/load.py,   *)
(* src/src/main.py): parse_genres, filter_transform_metadata,              *)
(* one_hot_encode_genres, load_movielens_links and merge_datasets.         *)
(*                                                                         *)
(* Conventions.                                                            *)
(*   - A nullable cell is a set: NULL = {} is pandas' missing value        *)
(*     (NaN / NaT / <NA> / None), Some(v) = {v} is the value v.            *)
(*   - A string whose whitespace matters is a sequence of one-character    *)
(*     strings, so that str.strip() is computed, not assumed.              *)
(*   - A table is a sequence of rows, a row is a record column -> cell.    *)
(*   - A Python call returns [raised |-> FALSE, value |-> v] or            *)
(*     [raised |-> TRUE, error |-> e].                                     *)
(***************************************************************************)
EXTENDS Integers, Sequences, FiniteSets, TLC

VARIABLES
    pc,               \* position of the run: the call about to be made, "done" or "raised"
    s,                \* parse_genres: its argument
    genres,           \* parse_genres: what the call returned
    df,               \* filter_transform_metadata: the raw metadata table [columns, rows]
    movie_ids,        \* filter_transform_metadata: the target tmdb ids
    transformed,      \* filter_transform_metadata: what the call returned
    meta_clean,       \* one_hot_encode_genres: its argument (rows with genre_lst)
    encoded,          \* one_hot_encode_genres: what the call returned
    links_csv,        \* rows of links.csv as read by pd.read_csv
    ml_links,         \* load_movielens_links' result, merge_datasets' first argument
    meta_with_genres, \* merge_datasets' second argument (expanded catalog)
    imdb_ratings,     \* merge_datasets' third argument (rating-source table object)
    merged            \* what merge_datasets returned

vars == <<pc, s, genres, df, movie_ids, transformed, meta_clean, encoded,
          links_csv, ml_links, meta_with_genres, imdb_ratings, merged>>

parseVars == <<s, genres>>
filterVars == <<df, movie_ids, transformed>>
encodeVars == <<meta_clean, encoded>>
mergeVars == <<links_csv, ml_links, meta_with_genres, imdb_ratings, merged>>

\* The value of a variable no call has written yet.
Idle == <<>>

ParseIdle == s = Idle /\ genres = Idle

FilterIdle == df = Idle /\ movie_ids = Idle /\ transformed = Idle

EncodeIdle == meta_clean = Idle /\ encoded = Idle

MergeIdle ==
    /\ links_csv = Idle
    /\ ml_links = Idle
    /\ meta_with_genres = Idle
    /\ imdb_ratings = Idle
    /\ merged = Idle

-----------------------------------------------------------------------------
(* Generic helpers *)

NULL == {}

Some(v) == {v}

IsNull(c) == c = NULL

Val(c) == CHOOSE v \in c : TRUE

Returned(v) == [raised |-> FALSE, value |-> v, error |-> <<>>]

Raised(e) == [raised |-> TRUE, value |-> <<>>, error |-> e]

\* All sequences over S of length 0..n.
SeqsUpTo(S, n) == UNION {[1..k -> S] : k \in 0..n}

RECURSIVE Flatten(_)
Flatten(ss) == IF ss = <<>> THEN <<>> ELSE Head(ss) \o Flatten(Tail(ss))

Range(xs) == {xs[i] : i \in 1..Len(xs)}

-----------------------------------------------------------------------------
(* parse_genres: process.py 6-21 *)

\* Bound: number of tokens in a genres text.
MaxTokens == 5

\* Literal tokens of a genres text. The four braces tokens are whole dict
\* displays; "18" is an int literal.
DictTokens == {"{'id':18,'name':'Drama'}", "{'id':80,'name':'Crime'}",
               "{'id':1,'name':''}", "{'id':18}"}

AtomTokens == DictTokens \cup {"18"}

Tokens == AtomTokens \cup {"[", "]", ","}

\* The Python object an atom token evaluates to.
AtomValue(tok) ==
    IF tok = "{'id':18,'name':'Drama'}" THEN [kind |-> "dict", has_name |-> TRUE, name |-> "Drama", items |-> <<>>]
    ELSE IF tok = "{'id':80,'name':'Crime'}" THEN [kind |-> "dict", has_name |-> TRUE, name |-> "Crime", items |-> <<>>]
    ELSE IF tok = "{'id':1,'name':''}" THEN [kind |-> "dict", has_name |-> TRUE, name |-> "", items |-> <<>>]
    ELSE IF tok = "{'id':18}" THEN [kind |-> "dict", has_name |-> FALSE, name |-> "", items |-> <<>>]
    ELSE [kind |-> "int", has_name |-> FALSE, name |-> "", items |-> <<>>]

ListValue(items) == [kind |-> "list", has_name |-> FALSE, name |-> "", items |-> items]

StrValue == [kind |-> "str", has_name |-> FALSE, name |-> "", items |-> <<>>]

ParseFail == [ok |-> FALSE, val |-> StrValue, next |-> 0]

ParseOk(v, n) == [ok |-> TRUE, val |-> v, next |-> n]

\* Python's expression grammar on the tokens: an atom, or a list display
\* "[" [expr ("," expr)* [","]] "]", nested to any depth.
RECURSIVE ParseExpr(_, _)
RECURSIVE ParseItems(_, _, _)
ParseExpr(toks, i) ==
    IF i > Len(toks) THEN ParseFail
    ELSE IF toks[i] \in AtomTokens THEN ParseOk(AtomValue(toks[i]), i + 1)
    ELSE IF toks[i] = "[" THEN ParseItems(toks, i + 1, <<>>)
    ELSE ParseFail

ParseItems(toks, i, acc) ==
    IF i > Len(toks) THEN ParseFail
    ELSE IF toks[i] = "]" THEN ParseOk(ListValue(acc), i + 1)
    ELSE LET e == ParseExpr(toks, i) IN
         IF ~e.ok \/ e.next > Len(toks) THEN ParseFail
         ELSE IF toks[e.next] = "," THEN ParseItems(toks, e.next + 1, Append(acc, e.val))
         ELSE IF toks[e.next] = "]" THEN ParseOk(ListValue(Append(acc, e.val)), e.next + 1)
         ELSE ParseFail

\* ast.literal_eval(s): the value, or SyntaxError when the text is not one
\* complete literal.
literal_eval(toks) ==
    LET r == ParseExpr(toks, 1) IN
    IF r.ok /\ r.next = Len(toks) + 1 THEN Returned(r.val) ELSE Raised("SyntaxError")

\* isinstance(d, dict) and d.get("name")
IsNamedDict(d) == d.kind = "dict" /\ d.has_name /\ d.name # ""

dict_get_name(d) == d.name

\* `for d in lst`: a list yields its items, a dict its keys (strings); an int
\* is not iterable.
Iterate(v) ==
    IF v.kind = "list" THEN Returned(v.items)
    ELSE IF v.kind = "dict" THEN Returned(<<StrValue>>)
    ELSE Raised("TypeError")

\* Lines 18-19, the body of the try.
parse_genres_try(text) ==
    LET lst == literal_eval(text) IN
    IF lst.raised THEN lst
    ELSE LET it == Iterate(lst.value) IN
         IF it.raised THEN it
         ELSE LET named == SelectSeq(it.value, IsNamedDict) IN
              Returned([i \in 1..Len(named) |-> dict_get_name(named[i])])

\* Mutant: the bare except of lines 20-21 is missing.
parse_genres_no_except(arg) ==
    IF arg.kind # "str" \/ arg.text = <<>> THEN Returned(<<>>)
    ELSE parse_genres_try(arg.text)

parse_genres(arg) ==
    IF arg.kind # "str" \/ arg.text = <<>> THEN Returned(<<>>)
    ELSE LET r == parse_genres_try(arg.text) IN
         IF r.raised THEN Returned(<<>>) ELSE r

\* Arguments: a non-string object (NaN for a missing cell, a number) or a string.
GenreArgs ==
    {[kind |-> "nan", text |-> <<>>], [kind |-> "int", text |-> <<>>]}
    \cup {[kind |-> "str", text |-> t] : t \in SeqsUpTo(Tokens, MaxTokens)}

InitParse ==
    /\ pc = "parse"
    /\ s \in GenreArgs
    /\ genres = Idle
    /\ FilterIdle
    /\ EncodeIdle
    /\ MergeIdle

ParseGenres ==
    /\ pc = "parse"
    /\ genres' = parse_genres(s)
    /\ pc' = IF genres'.raised THEN "raised" ELSE "done"
    /\ UNCHANGED <<s, filterVars, encodeVars, mergeVars>>

NextParse == ParseGenres

SpecParse == InitParse /\ [][NextParse]_vars

NotALiteral(arg) == arg.kind = "str" /\ arg.text # <<>> /\ literal_eval(arg.text).raised

LiteralOf(arg) == literal_eval(arg.text).value

\* The inputs the docstring calls invalid.
NoNamedRecord(arg) ==
    \/ arg.kind # "str"
    \/ arg.text = <<>>
    \/ NotALiteral(arg)
    \/ LiteralOf(arg).kind # "list"
    \/ \A i \in 1..Len(LiteralOf(arg).items) : ~IsNamedDict(LiteralOf(arg).items[i])

-----------------------------------------------------------------------------
(* filter_transform_metadata: process.py 24-65 *)

\* Bound: rows of a raw metadata table whose cells vary.
MaxFilterRows == 2

\* Bound: rows of a raw metadata table whose columns vary.
MaxSchemaRows == 1

\* Line 38.
required == <<"id", "imdb_id", "title", "original_language", "release_date",
              "runtime", "budget", "revenue", "genres">>

\* A column of the Kaggle file that the pipeline does not use.
ExtraColumns == {"popularity"}

\* Python's order of the column names, for sorted().
ColumnOrder == <<"budget", "genres", "id", "imdb_id", "original_language",
                 "popularity", "release_date", "revenue", "runtime", "title">>

sorted(names) == SelectSeq(ColumnOrder, LAMBDA c : c \in names)

\* Line 39: set(required) - set(df.columns)
MissingColumns(table) == Range(required) \ table.columns

\* Mutant: the message lists every required column, not the missing ones.
KeyErrorColumnsAllRequired(missing) == sorted(Range(required))

\* Line 41: the columns the KeyError names.
KeyErrorColumns(missing) == sorted(missing)

\* Value of a numeral token.
Numeral == ("0" :> 0) @@ ("1" :> 1) @@ ("2" :> 2) @@ ("5" :> 5) @@ ("10" :> 10)
           @@ ("13" :> 13) @@ ("30" :> 30) @@ ("81" :> 81) @@ ("1995" :> 1995)

IsNumeral(tok) == tok \in DOMAIN Numeral

\* pd.to_numeric(..., errors="coerce") on one cell: digits, or digits "."
\* digits, is a number (whole part, fractional digits); anything else NaN.
to_numeric(cell) ==
    IF IsNull(cell) THEN NULL
    ELSE LET txt == Val(cell) IN
         IF Len(txt) = 1 /\ IsNumeral(txt[1])
             THEN Some([whole |-> Numeral[txt[1]], frac |-> 0])
         ELSE IF Len(txt) = 3 /\ IsNumeral(txt[1]) /\ txt[2] = "." /\ IsNumeral(txt[3])
             THEN Some([whole |-> Numeral[txt[1]], frac |-> Numeral[txt[3]]])
         ELSE NULL

\* Whether .astype("Int64") accepts a float cell: NaN or an integral value.
SafeInt(cell) == IsNull(cell) \/ Val(cell).frac = 0

\* The Int64 cell of an accepted float cell.
ToInt64(cell) == IF IsNull(cell) THEN NULL ELSE Some(Val(cell).whole)

\* pd.to_datetime(..., errors="coerce") on one cell: YYYY-MM-DD with a real
\* month and day is a date; anything else NaT.
to_datetime(cell) ==
    IF IsNull(cell) THEN NULL
    ELSE LET txt == Val(cell) IN
         IF /\ Len(txt) = 5
            /\ txt[2] = "-" /\ txt[4] = "-"
            /\ IsNumeral(txt[1]) /\ IsNumeral(txt[3]) /\ IsNumeral(txt[5])
            /\ Numeral[txt[3]] \in 1..12
            /\ Numeral[txt[5]] \in 1..31
         THEN Some([year |-> Numeral[txt[1]], month |-> Numeral[txt[3]], day |-> Numeral[txt[5]]])
         ELSE NULL

\* .dt.year, then to_numeric(...).astype("Int64"): lines 53-54.
dt_year(cell) == IF IsNull(cell) THEN NULL ELSE Some(Val(cell).year)

IsSpace(ch) == ch = " "

\* str.strip() on a Python string.
RECURSIVE lstrip(_)
lstrip(txt) == IF txt # <<>> /\ IsSpace(Head(txt)) THEN lstrip(Tail(txt)) ELSE txt

RECURSIVE rstrip(_)
rstrip(txt) ==
    IF txt # <<>> /\ IsSpace(txt[Len(txt)]) THEN rstrip(SubSeq(txt, 1, Len(txt) - 1)) ELSE txt

strip(txt) == rstrip(lstrip(txt))

\* Series.str.strip() on one cell of an object column (the dtype read_csv
\* gives a column that holds any text): a missing cell stays missing.
str_strip(cell) == IF IsNull(cell) THEN NULL ELSE Some(strip(Val(cell)))

\* Series.isin(movie_ids_ser): a missing id is a member of nothing (line 49).
isin(cell, ids) == ~IsNull(cell) /\ Val(cell) \in ids

\* sort_values("id"): ascending, missing last. The default kind, numpy's
\* quicksort, is an insertion sort below 16 elements, so on tables of the
\* sizes explored here rows with equal ids keep their table order.
IdLeq(a, b) == IsNull(b.id) \/ (~IsNull(a.id) /\ Val(a.id) <= Val(b.id))

RECURSIVE InsertById(_, _)
InsertById(row, rows) ==
    IF rows = <<>> THEN <<row>>
    ELSE IF ~IdLeq(Head(rows), row) THEN <<row>> \o rows
    ELSE <<Head(rows)>> \o InsertById(row, Tail(rows))

RECURSIVE sort_values_id(_)
sort_values_id(rows) ==
    IF rows = <<>> THEN <<>>
    ELSE InsertById(rows[Len(rows)], sort_values_id(SubSeq(rows, 1, Len(rows) - 1)))

\* Lines 52-63 on one row whose id is already Int64.
TransformRow(row) ==
    LET date == to_datetime(row.release_date) IN
    [id |-> row.id,
     imdb_id |-> str_strip(row.imdb_id),
     title |-> str_strip(row.title),
     original_language |-> str_strip(row.original_language),
     release_date |-> date,
     year |-> dt_year(date),
     runtime |-> to_numeric(row.runtime),
     budget |-> to_numeric(row.budget),
     revenue |-> to_numeric(row.revenue),
     genre_lst |-> parse_genres(row.genres).value]

\* Lines 44-45: the rows with id coerced by to_numeric.
WithNumericId(rows) == [i \in 1..Len(rows) |-> [rows[i] EXCEPT !.id = to_numeric(rows[i].id)]]

filter_transform_metadata(table, ids) ==
    LET missing == MissingColumns(table) IN
    IF missing # {} THEN Raised([type |-> "KeyError", columns |-> KeyErrorColumns(missing)])
    ELSE LET numeric == WithNumericId(table.rows) IN
         IF \E i \in 1..Len(numeric) : ~SafeInt(numeric[i].id)
             THEN Raised([type |-> "TypeError", columns |-> <<>>])
         ELSE LET int64 == [i \in 1..Len(numeric) |->
                               [numeric[i] EXCEPT !.id = ToInt64(numeric[i].id)]]
                  kept == SelectSeq(int64, LAMBDA r : isin(r.id, ids))
              IN  Returned(sort_values_id([i \in 1..Len(kept) |-> TransformRow(kept[i])]))

\* Cells of the raw file, as text.
Txt(t) == Some(t)

IdCells == {Txt(<<"1">>), Txt(<<"2">>), Txt(<<"2", ".", "0">>), Txt(<<"1", ".", "5">>),
            Txt(<<"a", "b", "c">>)}

DateCells == {Txt(<<"1995", "-", "10", "-", "30">>), Txt(<<"1995", "-", "13", "-", "30">>)}

NumberCells == {Txt(<<"81">>), Txt(<<"a", "b", "c">>)}

GenreCells == {[kind |-> "str", text |-> <<"[", "{'id':18,'name':'Drama'}", "]">>],
               [kind |-> "str", text |-> <<"[", "{'id':18,'name':'Drama'}">>]}

RawRows ==
    {[id |-> i, imdb_id |-> Txt(<<" ", "t", "t", "1">>), title |-> Txt(<<"T", " ">>),
      original_language |-> Txt(<<"e", "n">>), release_date |-> d,
      runtime |-> rt, budget |-> bg, revenue |-> rv, genres |-> g, popularity |-> Txt(<<"5">>)] :
        i \in IdCells, d \in DateCells, rt \in NumberCells, bg \in NumberCells,
        rv \in NumberCells, g \in GenreCells}

AllColumns == Range(required) \cup ExtraColumns

\* A row every cell of which parses.
GoodRow ==
    [id |-> Txt(<<"1">>), imdb_id |-> Txt(<<" ", "t", "t", "1">>), title |-> Txt(<<"T", " ">>),
     original_language |-> Txt(<<"e", "n">>),
     release_date |-> Txt(<<"1995", "-", "10", "-", "30">>),
     runtime |-> Txt(<<"81">>), budget |-> Txt(<<"81">>), revenue |-> Txt(<<"81">>),
     genres |-> [kind |-> "str", text |-> <<"[", "{'id':18,'name':'Drama'}", "]">>],
     popularity |-> Txt(<<"5">>)]

Project(row, cols) == [c \in cols |-> row[c]]

InitFilter ==
    /\ pc = "filter"
    /\ \E rows \in SeqsUpTo(RawRows, MaxFilterRows) :
           df = [columns |-> AllColumns, rows |-> rows]
    /\ movie_ids \in {{1}, {1, 2}}
    /\ transformed = Idle
    /\ ParseIdle
    /\ EncodeIdle
    /\ MergeIdle

InitSchema ==
    /\ pc = "filter"
    /\ \E cols \in SUBSET AllColumns, n \in 0..MaxSchemaRows :
           df = [columns |-> cols, rows |-> [i \in 1..n |-> Project(GoodRow, cols)]]
    /\ movie_ids \in {{1}, {1, 2}}
    /\ transformed = Idle
    /\ ParseIdle
    /\ EncodeIdle
    /\ MergeIdle

FilterTransformMetadata ==
    /\ pc = "filter"
    /\ transformed' = filter_transform_metadata(df, movie_ids)
    /\ pc' = IF transformed'.raised THEN "raised" ELSE "done"
    /\ UNCHANGED <<df, movie_ids, parseVars, encodeVars, mergeVars>>

NextFilter == FilterTransformMetadata

SpecFilter == InitFilter /\ [][NextFilter]_vars

SpecSchema == InitSchema /\ [][NextFilter]_vars

\* C7: a missing required column makes filter_transform_metadata fail with
\* a KeyError naming exactly the missing columns and return no table; with
\* no column missing it raises no KeyError.
C7_SchemaError ==
    pc # "filter" =>
        IF Range(required) \subseteq df.columns
        THEN ~(transformed.raised /\ transformed.error.type = "KeyError")
        ELSE /\ pc = "raised"
             /\ transformed.raised
             /\ transformed.error.type = "KeyError"
             /\ Range(transformed.error.columns) = Range(required) \ df.columns
             /\ Len(transformed.error.columns) = Cardinality(Range(required) \ df.columns)
             /\ transformed.value = <<>>

\* Witness: a table without genres and runtime was refused.
C7_Witness ==
    /\ pc = "raised"
    /\ df.columns = AllColumns \ {"genres", "runtime"}
    /\ Len(df.rows) = 1
    /\ transformed.error.columns = <<"genres", "runtime">>

\* C6: with all nine columns present the call completes, whatever the cells.
C6_FieldFailuresNeverAbort ==
    (pc # "filter" /\ Range(required) \subseteq df.columns) =>
        /\ pc = "done"
        /\ ~transformed.raised

-----------------------------------------------------------------------------
(* one_hot_encode_genres: process.py 67-77 *)

\* Bound: rows of the normalized table given to one_hot_encode_genres.
MaxEncodeRows == 2

\* Bound: names in one genre_lst.
MaxGenres == 2

\* Genre names, in Python's string order.
GenreOrder == <<"Action", "Crime", "Drama">>

GenreNames == Range(GenreOrder)

sorted_genres(names) == SelectSeq(GenreOrder, LAMBDA g : g \in names)

\* Mutant: the vocabulary in order of first appearance, not sorted.
RECURSIVE FirstSeen(_, _)
FirstSeen(names, acc) ==
    IF names = <<>> THEN acc
    ELSE FirstSeen(Tail(names),
                   IF Head(names) \in Range(acc) THEN acc ELSE Append(acc, Head(names)))

mlb_classes_first_seen(rows) ==
    FirstSeen(Flatten([i \in 1..Len(rows) |-> rows[i].genre_lst]), <<>>)

\* MultiLabelBinarizer.fit: classes_ = sorted(set(chain.from_iterable(y))), line 73-74.
mlb_classes(rows) == sorted_genres(UNION {Range(rows[i].genre_lst) : i \in 1..Len(rows)})

\* MultiLabelBinarizer.transform on one row and one class: 1 when the label
\* is in set(row), as int8 (line 76).
Indicator(g, lst) == IF g \in Range(lst) THEN 1 ELSE 0

\* Lines 76-77: drop genre_lst, append one int8 column per class. Of the
\* columns that pass through unchanged, id stands for all.
one_hot_encode_genres(rows) ==
    LET genre_cols == mlb_classes(rows)
        kept == {"id"}
    IN  [columns |-> <<"id">> \o genre_cols,
         genre_cols |-> genre_cols,
         rows |-> [i \in 1..Len(rows) |->
                     [c \in kept \cup Range(genre_cols) |->
                        IF c \in kept THEN rows[i][c]
                        ELSE Some(Indicator(c, rows[i].genre_lst))]]]

CleanRows ==
    {[id |-> Some(i), genre_lst |-> g] : i \in {1, 2}, g \in SeqsUpTo(GenreNames, MaxGenres)}

InitEncode ==
    /\ pc = "encode"
    /\ meta_clean \in SeqsUpTo(CleanRows, MaxEncodeRows)
    /\ encoded = Idle
    /\ ParseIdle
    /\ FilterIdle
    /\ MergeIdle

OneHotEncodeGenres ==
    /\ pc = "encode"
    /\ encoded' = one_hot_encode_genres(meta_clean)
    /\ pc' = "done"
    /\ UNCHANGED <<meta_clean, parseVars, filterVars, mergeVars>>

NextEncode == OneHotEncodeGenres

SpecEncode == InitEncode /\ [][NextEncode]_vars

\* Position of a name in Python's string order.
GenreRank(g) == CHOOSE k \in 1..Len(GenreOrder) : GenreOrder[k] = g

\* C8: one row per input row in input order; genre_lst replaced by one
\* column per distinct genre of the batch, sorted; each indicator is 1 when
\* the row's genre_lst holds the genre (however often), else 0, never null.
C8_OneHot ==
    pc = "done" =>
        LET vocabulary == UNION {Range(meta_clean[i].genre_lst) : i \in 1..Len(meta_clean)}
            cols == encoded.genre_cols
        IN  /\ Len(encoded.rows) = Len(meta_clean)
            /\ Range(cols) = vocabulary
            /\ \A j, k \in 1..Len(cols) : j < k => GenreRank(cols[j]) < GenreRank(cols[k])
            /\ encoded.columns = <<"id">> \o cols
            /\ \A i \in 1..Len(meta_clean) :
                   /\ DOMAIN encoded.rows[i] = {"id"} \cup vocabulary
                   /\ encoded.rows[i].id = meta_clean[i].id
                   /\ \A g \in vocabulary :
                          encoded.rows[i][g] =
                              IF \E n \in 1..Len(meta_clean[i].genre_lst) :
                                     meta_clean[i].genre_lst[n] = g
                              THEN Some(1) ELSE Some(0)

\* Witness: a row without genres kept with all indicators 0, next to a row
\* that names Drama twice.
C8_Witness ==
    /\ pc = "done"
    /\ Len(meta_clean) = 2
    /\ meta_clean[1].genre_lst = <<>>
    /\ meta_clean[2].genre_lst = <<"Drama", "Drama">>
    /\ encoded.genre_cols = <<"Drama">>
    /\ encoded.rows[1].Drama = Some(0)
    /\ encoded.rows[2].Drama = Some(1)

-----------------------------------------------------------------------------
(* load_movielens_links: load.py 42-53;  merge_datasets: process.py 80-99 *)

\* Bound: rows of links.csv, of the expanded catalog and of the rating-source
\* table, taken together.
MaxRows == 4

\* DataFrame.rename(columns={old: new}) on one row.
Rename(row, old, new) ==
    [c \in (DOMAIN row \ {old}) \cup {new} |-> IF c = new THEN row[old] ELSE row[c]]

\* DataFrame.drop(columns=cols) on one row.
Drop(row, cols) == [c \in DOMAIN row \ cols |-> row[c]]

\* DataFrame.dropna(subset=[col])
dropna(rows, col) == SelectSeq(rows, LAMBDA r : ~IsNull(r[col]))

\* DataFrame.drop_duplicates(): a row equal to an earlier row in every column
\* goes; missing cells compare equal.
drop_duplicates(rows) ==
    LET keep == {i \in 1..Len(rows) : \A j \in 1..(i - 1) : rows[j] # rows[i]}
        F[i \in 0..Len(rows)] ==
            IF i = 0 THEN <<>>
            ELSE IF i \in keep THEN Append(F[i - 1], rows[i]) ELSE F[i - 1]
    IN  F[Len(rows)]

\* Mutant: one row per key, each column holding the first non-missing cell
\* among the rows of that key (groupby(col).first()).
first_non_null_per_column(rows, col) ==
    LET firstOf(i) == \A j \in 1..(i - 1) : rows[j][col] # rows[i][col]
        group(i) == SelectSeq(rows, LAMBDA r : r[col] = rows[i][col])
        pick(g, c) ==
            LET present == SelectSeq(g, LAMBDA r : ~IsNull(r[c])) IN
            IF present = <<>> THEN NULL ELSE Head(present)[c]
        F[i \in 0..Len(rows)] ==
            IF i = 0 THEN <<>>
            ELSE IF firstOf(i)
                 THEN Append(F[i - 1], [c \in DOMAIN rows[i] |-> pick(group(i), c)])
                 ELSE F[i - 1]
    IN  F[Len(rows)]

\* DataFrame.drop_duplicates(subset=[col], keep='first'), line 89.
drop_duplicates_subset(rows, col) ==
    LET keep == {i \in 1..Len(rows) : \A j \in 1..(i - 1) : rows[j][col] # rows[i][col]}
        F[i \in 0..Len(rows)] ==
            IF i = 0 THEN <<>>
            ELSE IF i \in keep THEN Append(F[i - 1], rows[i]) ELSE F[i - 1]
    IN  F[Len(rows)]

\* pd.merge(left, right, on=key, how='left'): every left row in order, once
\* per right row with an equal key in right order, or once with missing
\* right cells. pandas matches a missing key with a missing key.
left_merge(left, right, key, rightColumns) ==
    LET nulls == [c \in rightColumns \ {key} |-> NULL]
        joined(l) ==
            LET hits == SelectSeq(right, LAMBDA r : r[key] = l[key]) IN
            IF hits = <<>> THEN <<l @@ nulls>>
            ELSE [i \in 1..Len(hits) |-> l @@ hits[i]]
    IN  Flatten([i \in 1..Len(left) |-> joined(left[i])])

\* Lines 51-53: every column as Int64, then drop_duplicates().
load_movielens_links(csv) == drop_duplicates(csv)

\* Mutant: rows with a missing id are kept in the prepared catalog.
catalog_key_prep_keep_null(catalog) ==
    drop_duplicates_subset([i \in 1..Len(catalog) |-> Rename(catalog[i], "id", "tmdbId")],
                           "tmdbId")

\* Lines 88-89: rename id to tmdbId, drop rows without id, first row per id.
catalog_key_prep(catalog) ==
    drop_duplicates_subset(
        dropna([i \in 1..Len(catalog) |-> Rename(catalog[i], "id", "tmdbId")], "tmdbId"),
        "tmdbId")

\* Mutant: the rating-source key is compared as it stands.
ratings_key_untrimmed(ratings) == ratings

\* Line 94: imdb_ratings['tconst'] = imdb_ratings['tconst'].str.strip().copy(),
\* assigned into the caller's table.
ratings_key_trimmed(ratings) ==
    [i \in 1..Len(ratings) |-> [ratings[i] EXCEPT !.tconst = str_strip(ratings[i].tconst)]]

CatalogColumns == {"id", "imdb_id", "title", "original_language", "release_date", "year",
                   "runtime", "budget", "revenue", "Drama"}

PreparedColumns == (CatalogColumns \ {"id"}) \cup {"tmdbId"}

RatingColumns == {"tconst", "averageRating", "numVotes"}

\* Lines 88-98. value: the returned table; imdb_ratings: the caller's
\* rating-source table after the call.
merge_datasets(links, catalog, ratings) ==
    LET meta == catalog_key_prep(catalog)
        merged1 == left_merge(links, meta, "tmdbId", PreparedColumns)
        merged2 == [i \in 1..Len(merged1) |->
                      merged1[i] @@ [tconst |-> str_strip(merged1[i].imdb_id)]]
        ratings2 == ratings_key_trimmed(ratings)
        merged3 == left_merge(merged2, ratings2, "tconst", RatingColumns)
        merged4 == [i \in 1..Len(merged3) |-> Drop(merged3[i], {"imdbId", "tconst"})]
        merged5 == [i \in 1..Len(merged4) |->
                      Rename(Rename(Rename(merged4[i], "imdb_id", "imdbId"),
                                    "numVotes", "imdb_numVotes"),
                             "averageRating", "imdb_averageRating")]
    IN  [value |-> merged5, imdb_ratings |-> ratings2]

LinkRows ==
    {[movieId |-> Some(m), imdbId |-> IF m = 10 THEN Some(7) ELSE NULL, tmdbId |-> t] :
        m \in {10, 11}, t \in {Some(1), Some(2), NULL}}

KeyTexts == {<<"t", "t", "1", " ">>, <<"t", "t", "2">>}

CatalogRows ==
    {[id |-> i, imdb_id |-> k, title |-> Some(<<ttl>>),
      original_language |-> Some(<<"e", "n">>),
      release_date |-> Some([year |-> 1995, month |-> 10, day |-> 30]),
      year |-> Some(1995),
      runtime |-> Some([whole |-> 81, frac |-> 0]),
      budget |-> Some([whole |-> 0, frac |-> 0]),
      revenue |-> Some([whole |-> 0, frac |-> 0]),
      Drama |-> Some(IF ttl = "A" THEN 1 ELSE 0)] :
        i \in {Some(1), NULL}, k \in {Some(x) : x \in KeyTexts} \cup {NULL}, ttl \in {"A", "B"}}

RatingRows ==
    {[tconst |-> k, averageRating |-> Some(a), numVotes |-> Some(a * 20)] :
        k \in {Some(<<" ", "t", "t", "1">>), NULL}, a \in {5, 9}}

InitMerge ==
    /\ pc = "load"
    /\ \E nl \in 0..MaxRows :
         \E nc \in 0..(MaxRows - nl) :
           \E nr \in 0..(MaxRows - nl - nc) :
              /\ links_csv \in [1..nl -> LinkRows]
              /\ meta_with_genres \in [1..nc -> CatalogRows]
              /\ imdb_ratings \in [1..nr -> RatingRows]
    /\ ml_links = Idle
    /\ merged = Idle
    /\ ParseIdle
    /\ FilterIdle
    /\ EncodeIdle

\* main.py line 13.
LoadMovielensLinks ==
    /\ pc = "load"
    /\ ml_links' = load_movielens_links(links_csv)
    /\ pc' = "merge"
    /\ UNCHANGED <<links_csv, meta_with_genres, imdb_ratings, merged,
                   parseVars, filterVars, encodeVars>>

\* main.py line 21.
MergeDatasets ==
    /\ pc = "merge"
    /\ LET r == merge_datasets(ml_links, meta_with_genres, imdb_ratings) IN
           /\ merged' = r.value
           /\ imdb_ratings' = r.imdb_ratings
    /\ pc' = "done"
    /\ UNCHANGED <<links_csv, ml_links, meta_with_genres, parseVars, filterVars, encodeVars>>

NextMerge == LoadMovielensLinks \/ MergeDatasets

SpecMerge == InitMerge /\ [][NextMerge]_vars

\* Columns of the output that come from the catalog.
CatalogDerived == {"title", "original_language", "release_date", "year", "runtime",
                   "budget", "revenue", "imdbId", "Drama"}

\* The first row of the catalog table with the given (present) id.
FirstCatalogRow(key) ==
    meta_with_genres[CHOOSE i \in 1..Len(meta_with_genres) :
                        /\ meta_with_genres[i].id = key
                        /\ \A j \in 1..(i - 1) : meta_with_genres[j].id # key]

InCatalog(key) ==
    /\ ~IsNull(key)
    /\ \E i \in 1..Len(meta_with_genres) : meta_with_genres[i].id = key

\* C1: merge_datasets returns as many rows as the deduplicated links hold
\* distinct movieId values.
C1_OneRowPerMovieId ==
    pc = "done" => Len(merged) = Cardinality({ml_links[i].movieId : i \in 1..Len(ml_links)})

\* C2: every link row is in the output, and an output row whose tmdbId is
\* missing or matches no catalog id has a missing cell, not 0 and not "",
\* in every catalog-derived column.
C2_UnmatchedLinkHasNulls ==
    pc = "done" =>
        /\ \A i \in 1..Len(ml_links) :
               \E k \in 1..Len(merged) :
                   /\ merged[k].movieId = ml_links[i].movieId
                   /\ merged[k].tmdbId = ml_links[i].tmdbId
        /\ \A k \in 1..Len(merged) :
               ~InCatalog(merged[k].tmdbId) =>
                   \A c \in CatalogDerived : IsNull(merged[k][c])

\* Witness: a link without tmdbId met a catalog row without id and stayed unmatched.
C2_Witness ==
    /\ pc = "done"
    /\ \E i \in 1..Len(ml_links) : IsNull(ml_links[i].tmdbId)
    /\ \E i \in 1..Len(meta_with_genres) : IsNull(meta_with_genres[i].id)
    /\ \E k \in 1..Len(merged) : IsNull(merged[k].tmdbId) /\ IsNull(merged[k].title)

\* C3: when the catalog cross-reference of a joined row and the key of a
\* rating-source record are equal after trimming, the output holds that row
\* with the record's averageRating and numVotes.
C3_TrimmedKeysJoin ==
    pc = "done" =>
        \A k \in 1..Len(merged), q \in 1..Len(imdb_ratings) :
            (/\ ~IsNull(merged[k].imdbId)
             /\ ~IsNull(imdb_ratings[q].tconst)
             /\ strip(Val(merged[k].imdbId)) = strip(Val(imdb_ratings[q].tconst)))
            => \E n \in 1..Len(merged) :
                   /\ \A c \in {"movieId", "tmdbId"} \cup CatalogDerived :
                          merged[n][c] = merged[k][c]
                   /\ merged[n].imdb_averageRating = imdb_ratings[q].averageRating
                   /\ merged[n].imdb_numVotes = imdb_ratings[q].numVotes

\* Witness: cross-reference "tt1 " joined a record whose key was " tt1".
C3_Witness ==
    /\ pc = "done"
    /\ \E i \in 1..Len(meta_with_genres) :
           meta_with_genres[i].imdb_id = Some(<<"t", "t", "1", " ">>)
    /\ \E k \in 1..Len(merged) :
           /\ merged[k].imdbId = Some(<<"t", "t", "1", " ">>)
           /\ merged[k].imdb_averageRating = Some(9)
           /\ merged[k].imdb_numVotes = Some(180)

\* C4: an output row whose tmdbId is a catalog id holds, in every
\* catalog-derived column, the cell of the first catalog row with that id.
C4_FirstCatalogRowWins ==
    pc = "done" =>
        \A k \in 1..Len(merged) :
            InCatalog(merged[k].tmdbId) =>
                LET first == Rename(FirstCatalogRow(merged[k].tmdbId), "imdb_id", "imdbId") IN
                \A c \in CatalogDerived : merged[k][c] = first[c]

\* Witness: two catalog rows share an id, the first has no cross-reference
\* and the second has one; the output row has none.
C4_Witness ==
    /\ pc = "done"
    /\ Len(meta_with_genres) >= 2
    /\ meta_with_genres[1].id = Some(1)
    /\ meta_with_genres[2].id = Some(1)
    /\ IsNull(meta_with_genres[1].imdb_id)
    /\ ~IsNull(meta_with_genres[2].imdb_id)
    /\ meta_with_genres[1].title # meta_with_genres[2].title
    /\ \E k \in 1..Len(merged) :
           /\ merged[k].tmdbId = Some(1)
           /\ merged[k].title = meta_with_genres[1].title
           /\ IsNull(merged[k].imdbId)

\* A step that is a call leaves the tables passed to it as they were.
InputsKept ==
    pc \in {"filter", "encode", "merge"} =>
        /\ df' = df
        /\ meta_clean' = meta_clean
        /\ ml_links' = ml_links
        /\ meta_with_genres' = meta_with_genres
        /\ imdb_ratings' = imdb_ratings

\* C9: no call changes a table passed to it.
C9_InputsNotMutated == [][InputsKept]_vars

\* C10: an output row without catalog cross-reference has no averageRating
\* and no numVotes.
C10_NullKeyNeverMatches ==
    pc = "done" =>
        \A k \in 1..Len(merged) :
            IsNull(merged[k].imdbId) =>
                IsNull(merged[k].imdb_averageRating) /\ IsNull(merged[k].imdb_numVotes)

=============================================================================
